---------------------------- MODULE Spec2Model ----------------------------
(***************************************************************************)
(* Model of components/jd_index.py: the JDIndex facade (build_from_csv,    *)
(* load, query, match_role) over a shared artifact directory.              *)
(*                                                                         *)
(* Library behaviour is modelled by what it does on this model's data:     *)
(*   - TfidfVectorizer: vocabulary = sorted distinct non-stop-word tokens  *)
(*     of the fitting texts; a document vector is the 0/1 occurrence row   *)
(*     over that vocabulary (weights and bigrams are abstracted away);     *)
(*     fitting on texts with no token raises ValueError; transform on an   *)
(*     unfitted vectorizer raises NotFittedError.                          *)
(*   - SGDClassifier: classes_ is the label list given to partial_fit,     *)
(*     fewer than two classes raise ValueError; the decision score of a    *)
(*     class is the dot product with the sum of its training rows, and     *)
(*     argmax returns the first maximum.                                   *)
(*   - faiss.IndexFlatL2: holds its own copy of the rows; search returns   *)
(*     exactly k slots, ascending by squared L2 distance, ties by row      *)
(*     order, and fills the slots beyond ntotal with index -1 and the      *)
(*     largest float.                                                      *)
(*   - joblib/np load of an absent file raises FileNotFoundError.          *)
(***************************************************************************)
EXTENDS Integers, Sequences, FiniteSets, TLC

VARIABLES inst, disk, done, builder, last

vars == <<inst, disk, done, builder, last>>

-----------------------------------------------------------------------------
(* Bounds of the model *)

\* rows of a generated corpus file (SpecIngest)
MaxRows == 3
\* largest chunk_size tried
MaxChunk == 2
\* largest k passed to query
MaxK == 3

-----------------------------------------------------------------------------
(* Values *)

None == [none |-> TRUE]

\* a numpy array holding the sequence v
ndarray(v) == [values |-> v]

\* a missing cell (pandas NaN, not a str)
NaN == "<NaN>"

\* distance faiss reports for a result slot it could not fill
FLT_MAX == 1000000

\* alphabetical order of the role labels (np.unique sorts)
LabelOrder == <<"Chef", "Data Scientist", "Plombier", "Plumber">>

\* alphabetical order of the tokens (vocabulary_ columns are sorted)
TokenOrder == <<"knife", "pipes", "python", "sql", "tuyaux", "wrench">>

\* stop_words="english"
StopWords == {"and", "i", "the"}

\* tokenisation of the texts used in this model
Words(text) ==
  CASE text = "python sql" -> <<"python", "sql">>
    [] text = "pipes wrench" -> <<"pipes", "wrench">>
    [] text = "knife" -> <<"knife">>
    [] text = "tuyaux" -> <<"tuyaux">>
    [] text = "the python and sql" -> <<"the", "python", "and", "sql">>
    [] text = "wrench and pipes" -> <<"wrench", "and", "pipes">>
    [] text = "and the" -> <<"and", "the">>
    [] OTHER -> <<>>

Range(s) == {s[n] : n \in 1..Len(s)}

Min(a, b) == IF a < b THEN a ELSE b

\* the members of S in the order of the sequence order
SortBy(order, S) == SelectSeq(order, LAMBDA x : x \in S)

-----------------------------------------------------------------------------
(* Text cleaning and language filter *)

_clean_text(x) == IF x = NaN THEN "" ELSE x

\* langdetect.detect(text) == "en"; detect raises on text without features
EnglishTexts == {"Chef", "Data Scientist", "Plumber",
                 "python sql", "pipes wrench", "knife"}

_is_english(text) == text \in EnglishTexts

-----------------------------------------------------------------------------
(* Corpus files *)

Row(j, s) == [job_position |-> j, relevant_skills |-> s]

BothColumns == {"job_position", "relevant_skills"}

Csv(cols, rows) == [columns |-> cols, rows |-> rows]

\* Chunk with the end of the chunk taken one row short
ChunkShort(csv, chunk_size, c) ==
  SubSeq(csv.rows, c * chunk_size + 1,
         Min((c + 1) * chunk_size - 1, Len(csv.rows)))

\* chunk number c (from 0) of pd.read_csv(csv_path, chunksize=chunk_size)
Chunk(csv, chunk_size, c) ==
  SubSeq(csv.rows, c * chunk_size + 1,
         Min((c + 1) * chunk_size, Len(csv.rows)))

NumChunks(csv, chunk_size) == (Len(csv.rows) + chunk_size - 1) \div chunk_size

CleanRow(r) == Row(_clean_text(r.job_position), _clean_text(r.relevant_skills))

KeepRow(r) == _is_english(r.job_position) /\ _is_english(r.relevant_skills)

\* one iteration of the chunk loop: the chunks appended to all_chunks
ProcessChunk(csv, chunk) ==
  LET cleaned == [n \in 1..Len(chunk) |-> CleanRow(chunk[n])]
  IN IF BothColumns \subseteq csv.columns
       THEN <<SelectSeq(cleaned, KeepRow)>>
       ELSE <<>>

RECURSIVE AllChunks(_, _, _)
AllChunks(csv, chunk_size, c) ==
  IF c >= NumChunks(csv, chunk_size)
    THEN <<>>
    ELSE ProcessChunk(csv, Chunk(csv, chunk_size, c))
           \o AllChunks(csv, chunk_size, c + 1)

\* pd.concat(all_chunks, ignore_index=True)
RECURSIVE Concat(_)
Concat(chunks) ==
  IF chunks = <<>> THEN <<>> ELSE Head(chunks) \o Concat(Tail(chunks))

-----------------------------------------------------------------------------
(* Inputs *)

\* the scenario corpus of two roles, with a row in another language between
CorpusA ==
  Csv(BothColumns, <<Row("Data Scientist", "python sql"),
                     Row("Plombier", "tuyaux"),
                     Row("Plumber", "pipes wrench")>>)

\* three surviving rows, other roles and another vocabulary
CorpusB ==
  Csv(BothColumns, <<Row("Chef", "knife"),
                     Row(NaN, "knife"),
                     Row("Data Scientist", "python sql"),
                     Row("Chef", "python sql")>>)

\* a single role
CorpusOneRole ==
  Csv(BothColumns, <<Row("Plumber", "pipes wrench"),
                     Row("Plumber", "pipes wrench")>>)

\* both columns, no row in the target language
CorpusForeign ==
  Csv(BothColumns, <<Row("Plombier", "tuyaux"),
                     Row("Data Scientist", NaN),
                     Row("Plombier", "pipes wrench")>>)

\* no relevant_skills column
CorpusNoSkills ==
  Csv({"job_position"}, <<Row("Plumber", NaN), Row("Chef", NaN)>>)

Corpora == {CorpusA, CorpusB, CorpusOneRole, CorpusForeign, CorpusNoSkills}

QueryTexts == {"the python and sql", "wrench and pipes", "and the"}

-----------------------------------------------------------------------------
(* TfidfVectorizer *)

UnfittedVectorizer == [fitted |-> FALSE, vocabulary_ |-> <<>>]

\* the analyzer: tokens of a text with the stop words removed
Analyze(text) == {w \in Range(Words(text)) : w \notin StopWords}

\* vocabulary_ learnt from the texts, columns in sorted order
FitVocabulary(texts) ==
  SortBy(TokenOrder, UNION {Analyze(texts[n]) : n \in 1..Len(texts)})

\* the row of one text over a vocabulary
Vectorize(vocabulary, text) ==
  [n \in 1..Len(vocabulary) |->
     IF vocabulary[n] \in Analyze(text) THEN 1 ELSE 0]

\* vectorizer.fit_transform(texts): the fitted vectorizer and the matrix X
fit_transform(texts) ==
  LET vocabulary == FitVocabulary(texts)
  IN [vectorizer |-> [fitted |-> TRUE, vocabulary_ |-> vocabulary],
      X |-> [n \in 1..Len(texts) |-> Vectorize(vocabulary, texts[n])]]

\* vectorizer.transform([text])
transform(vectorizer, text) == Vectorize(vectorizer.vocabulary_, text)

-----------------------------------------------------------------------------
(* SGDClassifier *)

RECURSIVE SumRows(_, _, _, _)
\* column-wise sum of the rows of X labelled c, from row n on
SumRows(X, y, c, n) ==
  IF n > Len(X)
    THEN [m \in 1..(IF Len(X) = 0 THEN 0 ELSE Len(X[1])) |-> 0]
    ELSE LET rest == SumRows(X, y, c, n + 1)
         IN IF y[n] = c
              THEN [m \in 1..Len(rest) |-> rest[m] + X[n][m]]
              ELSE rest

\* the classifier after the partial_fit epochs with classes=classes
partial_fit(X, y, classes) ==
  [classes_ |-> ndarray(classes),
   n_features |-> Len(X[1]),
   coef_ |-> [c \in 1..Len(classes) |-> SumRows(X, y, classes[c], 1)]]

RECURSIVE Dot(_, _)
Dot(a, b) ==
  IF a = <<>> THEN 0 ELSE Head(a) * Head(b) + Dot(Tail(a), Tail(b))

\* decision score of every class for one row
predict_proba(clf, vec) ==
  [c \in 1..Len(clf.coef_) |-> Dot(clf.coef_[c], vec)]

\* np.argmax: the first position holding the maximum (from 1 here)
argmax(proba) ==
  CHOOSE c \in 1..Len(proba) :
    /\ \A e \in 1..Len(proba) : proba[e] <= proba[c]
    /\ \A e \in 1..(c - 1) : proba[e] < proba[c]

\* hasattr(clf, "classes_")
HasClasses(clf) == "classes_" \in DOMAIN clf

-----------------------------------------------------------------------------
(* faiss.IndexFlatL2 *)

\* IndexFlatL2 with no row added
IndexFlatL2Unfilled(d, xb) == [d |-> d, xb |-> <<>>]

\* IndexFlatL2(d) then add(X_dense): the index keeps its own copy
IndexFlatL2(d, X_dense) == [d |-> d, xb |-> X_dense]

RECURSIVE L2(_, _)
\* squared L2 distance
L2(a, b) ==
  IF a = <<>> THEN 0
  ELSE (Head(a) - Head(b)) * (Head(a) - Head(b)) + L2(Tail(a), Tail(b))

RECURSIVE Distances(_, _)
\* the distance of vec to every stored row, in row order
Distances(xb, vec) ==
  IF xb = <<>> THEN <<>> ELSE <<L2(Head(xb), vec)>> \o Distances(Tail(xb), vec)

\* row m comes before row n in the result (ties: the lower row first)
Nearer(D, m, n) == D[m] < D[n] \/ (D[m] = D[n] /\ m < n)

\* the row holding rank r (from 1) among the stored rows
RowOfRank(D, r) ==
  CHOOSE n \in 1..Len(D) :
    Cardinality({m \in 1..Len(D) : Nearer(D, m, n)}) = r - 1

\* the k result slots for the distances D: <<I, D>> with the row number I
\* from 0 as faiss reports it, -1 and FLT_MAX in the slots beyond ntotal
Slots(D, k) ==
  [r \in 1..k |->
     IF r <= Len(D)
       THEN [I |-> RowOfRank(D, r) - 1, D |-> D[RowOfRank(D, r)]]
       ELSE [I |-> -1, D |-> FLT_MAX]]

\* index.search(vec, k)
search(index, vec, k) == Slots(Distances(index.xb, vec), k)

-----------------------------------------------------------------------------
(* The artifact directory *)

Absent == [absent |-> TRUE]

\* the files in the order build_from_csv writes them
ART_PATH == <<"vectorizer.pkl", "role_match_clf.pkl", "X_dense.npy",
              "y_positions.npy", "model_metadata.json">>

EmptyDir == [f \in Range(ART_PATH) |-> Absent]

Exists(d, f) == d[f] # Absent

-----------------------------------------------------------------------------
(* JDIndex *)

\* JDIndex.__init__
__init__ ==
  [vectorizer |-> UnfittedVectorizer,
   role_match_clf |-> None,
   index |-> None,
   X_dense |-> None,
   y_positions |-> None,
   classes_ |-> None]

\* what a call did: it returned a value, or raised
Returned(v) == [kind |-> "ok", value |-> v]

Raised(e, at) == [kind |-> e, at |-> at]

\* the state after the first n of the five writes of build_from_csv
RECURSIVE Save(_, _, _)
Save(d, contents, n) ==
  IF n = 0 THEN d
  ELSE [Save(d, contents, n - 1) EXCEPT ![ART_PATH[n]] = contents[n]]

\* the head of build_from_csv: the chunk loop, the emptiness check, concat
Ingest(csv, chunk_size) ==
  IF AllChunks(csv, chunk_size, 0) = <<>>
    THEN Raised("ValueError", "no valid data")
    ELSE Returned(Concat(AllChunks(csv, chunk_size, 0)))

\* the part of build_from_csv that does not depend on the instance or the
\* directory: ingestion, fitting and training, up to the step that raises
Train(csv, chunk_size) ==
  LET ingested == Ingest(csv, chunk_size)
      df == ingested.value
      texts == [n \in 1..Len(df) |-> df[n].relevant_skills]
      fitted == fit_transform(texts)
      X == fitted.X
      y == [n \in 1..Len(df) |-> df[n].job_position]
      classes == SortBy(LabelOrder, Range(y))
      clf == partial_fit(X, y, classes)
      X_dense == ndarray(X)
      metadata == [total_records |-> Len(df),
                   unique_roles |-> Len(classes),
                   roles |-> classes]
  IN CASE ingested.kind # "ok" -> [raised |-> ingested.at]
       [] ingested.kind = "ok" /\ fitted.vectorizer.vocabulary_ = <<>> ->
            [raised |-> "fit_transform"]
       [] ingested.kind = "ok" /\ fitted.vectorizer.vocabulary_ # <<>>
            /\ Len(classes) < 2 ->
            [raised |-> "partial_fit", vectorizer |-> fitted.vectorizer]
       [] OTHER ->
            [raised |-> "",
             trained |-> [vectorizer |-> fitted.vectorizer,
                          role_match_clf |-> clf,
                          classes_ |-> ndarray(classes),
                          index |-> IndexFlatL2(Len(X[1]), X),
                          X_dense |-> X_dense,
                          y_positions |-> ndarray(y)],
             contents |-> <<fitted.vectorizer, clf, X_dense, ndarray(y),
                            metadata>>]

RECURSIVE Tabulate(_)
\* the function p |-> Train(p[1], p[2]) over the pairs in S, computed once
Tabulate(S) ==
  IF S = {} THEN <<>>
  ELSE LET p == CHOOSE q \in S : TRUE
       IN (p :> Train(p[1], p[2])) @@ Tabulate(S \ {p})

\* Train over the build inputs of the model
Trainings == Tabulate(Corpora \X (1..MaxChunk))

\* build_from_csv(csv_path, chunk_size=chunk_size) on instance state self
\* with directory d; the save step is interrupted after `writes` writes when
\* writes < Len(ART_PATH).  Returns the instance, the directory, the outcome.
BuildFromCsv(self, d, csv, chunk_size, writes) ==
  LET t == Trainings[<<csv, chunk_size>>]
  IN CASE t.raised \in {"no valid data", "fit_transform"} ->
            [inst |-> self, disk |-> d,
             out |-> Raised("ValueError", t.raised)]
       [] t.raised = "partial_fit" ->
            [inst |-> [self EXCEPT !.vectorizer = t.vectorizer],
             disk |-> d,
             out |-> Raised("ValueError", t.raised)]
       [] OTHER ->
            [inst |-> t.trained,
             disk |-> Save(d, t.contents, writes),
             out |-> IF writes = Len(ART_PATH)
                       THEN Returned(None)
                       ELSE Raised("OSError", ART_PATH[writes + 1])]

\* LoadedClasses with the label array always preferred
LoadedClassesFromLabels(clf, y_positions) ==
  ndarray(SortBy(LabelOrder, Range(y_positions.values)))

\* the classes_ that load() derives
LoadedClasses(clf, y_positions) ==
  IF HasClasses(clf)
    THEN clf.classes_
    ELSE ndarray(SortBy(LabelOrder, Range(y_positions.values)))

\* the fields load() reads, each from its file, in the order of the reads
LoadOrder == <<"vectorizer", "role_match_clf", "X_dense", "y_positions">>

RECURSIVE Loaded(_, _, _)
\* the instance after the first n reads of load(), each assigned as it is read
Loaded(self, d, n) ==
  IF n = 0 THEN self
  ELSE [Loaded(self, d, n - 1) EXCEPT ![LoadOrder[n]] = d[ART_PATH[n]]]

\* the number of reads of load() that succeed before one raises
Reads(d) ==
  CHOOSE n \in 0..Len(LoadOrder) :
    /\ \A m \in 1..n : Exists(d, ART_PATH[m])
    /\ n < Len(LoadOrder) => ~Exists(d, ART_PATH[n + 1])

\* Rebuild with the index left as it was
RebuildKeepsIndex(s) ==
  [s EXCEPT !.classes_ = LoadedClasses(s.role_match_clf, s.y_positions)]

\* the tail of load(): classes_ and the index rebuilt from X_dense
Rebuild(s) ==
  [s EXCEPT !.classes_ = LoadedClasses(s.role_match_clf, s.y_positions),
            !.index = IndexFlatL2(Len(s.X_dense.values[1]), s.X_dense.values)]

\* Load with the error of a missing file swallowed
LoadLenient(self, d) ==
  [inst |-> IF Reads(d) = Len(LoadOrder)
              THEN Rebuild(Loaded(self, d, Len(LoadOrder)))
              ELSE Loaded(self, d, Reads(d)),
   out |-> Returned(None)]

\* load() on instance state self with directory d
Load(self, d) ==
  IF Reads(d) = Len(LoadOrder)
    THEN [inst |-> Rebuild(Loaded(self, d, Len(LoadOrder))),
          out |-> Returned(None)]
    ELSE [inst |-> Loaded(self, d, Reads(d)),
          out |-> Raised("FileNotFoundError", ART_PATH[Reads(d) + 1])]

\* y_positions[idx] for a row number idx as faiss reports it: Python
\* indexing, where a negative idx counts from the end
GetItem(y_positions, idx) ==
  IF idx >= 0 THEN y_positions.values[idx + 1]
  ELSE y_positions.values[Len(y_positions.values) + idx + 1]

InRange(y_positions, idx) ==
  /\ idx < Len(y_positions.values)
  /\ idx >= 0 - Len(y_positions.values)

\* query(text, k) on instance state self
Query(self, text, k) ==
  LET vec == transform(self.vectorizer, text)
      found == search(self.index, vec, k)
  IN CASE ~self.vectorizer.fitted -> Raised("NotFittedError", "vectorizer")
       [] self.vectorizer.fitted /\ self.index = None ->
            Raised("AttributeError", "index")
       [] self.vectorizer.fitted /\ self.index # None
            /\ Len(vec) # self.index.d ->
            Raised("AssertionError", "search")
       [] self.vectorizer.fitted /\ self.index # None
            /\ Len(vec) = self.index.d
            /\ \E r \in 1..k : ~InRange(self.y_positions, found[r].I) ->
            Raised("IndexError", "y_positions")
       [] OTHER ->
            Returned([r \in 1..k |->
                        [job_position |->
                           GetItem(self.y_positions, found[r].I),
                         score |-> found[r].D]])

\* RoleAt reading the label from the list of all labels
RoleAtGlobal(clf, idx) == LabelOrder[idx]

\* self.role_match_clf.classes_[idx], idx from 1 here
RoleAt(clf, idx) == clf.classes_.values[idx]

\* match_role(text) on instance state self
MatchRole(self, text) ==
  LET vec == transform(self.vectorizer, text)
      clf == self.role_match_clf
      proba == predict_proba(clf, vec)
      idx == argmax(proba)
  IN CASE ~self.vectorizer.fitted -> Raised("NotFittedError", "vectorizer")
       [] self.vectorizer.fitted /\ clf = None ->
            Raised("AttributeError", "role_match_clf")
       [] self.vectorizer.fitted /\ clf # None /\ ~HasClasses(clf) ->
            Raised("NotFittedError", "role_match_clf")
       [] self.vectorizer.fitted /\ clf # None /\ HasClasses(clf)
            /\ Len(vec) # clf.n_features ->
            Raised("ValueError", "predict_proba")
       [] OTHER ->
            Returned([label |-> RoleAt(clf, idx),
                      proba |-> proba[idx]])

\* AfterTransform with the vectorizer fitted again on the text it is given
TransformRefits(vectorizer, text) == fit_transform(<<text>>).vectorizer

\* the vectorizer after vectorizer.transform([text]): transform projects the
\* text through vocabulary_ and learns nothing
AfterTransform(vectorizer, text) == vectorizer

\* the instance after query(text, k) or match_role(text), whether the call
\* returns or raises: neither assigns a field, index.search and predict_proba
\* only read, and the one call on an object with a fit method is transform
Served(self, text) ==
  [self EXCEPT !.vectorizer = AfterTransform(self.vectorizer, text)]

-----------------------------------------------------------------------------
(* The state machine *)

(* inst is the JDIndex instance in use, disk the artifact directory it      *)
(* shares with every earlier instance.  done is the facade's lifecycle      *)
(* state: the last of build_from_csv and load to complete on inst.  builder *)
(* keeps the in-memory state of the instance whose build_from_csv last      *)
(* completed, for as long as the directory holds what that call saved.      *)
(* last is the last call and its outcome.                                   *)

Init ==
  /\ inst = __init__
  /\ disk = EmptyDir
  /\ done = "Unbuilt"
  /\ builder = None
  /\ last = [op |-> "__init__"]

\* jd = JDIndex(): the instance is discarded and a new one constructed
JDIndex ==
  /\ inst # __init__
  /\ inst' = __init__
  /\ done' = "Unbuilt"
  /\ last' = [op |-> "__init__"]
  /\ UNCHANGED <<disk, builder>>

build_from_csv(csv, chunk_size, writes) ==
  LET r == BuildFromCsv(inst, disk, csv, chunk_size, writes)
  IN /\ writes < Len(ART_PATH) => Trainings[<<csv, chunk_size>>].raised = ""
     /\ inst' = r.inst
     /\ disk' = r.disk
     /\ done' = IF r.out.kind = "ok" THEN "Built" ELSE done
     /\ builder' = CASE r.out.kind = "ok" -> r.inst
                     [] r.out.kind # "ok" /\ r.disk = disk -> builder
                     [] OTHER -> None
     /\ last' = [op |-> "build_from_csv", csv |-> csv, out |-> r.out]

load ==
  LET r == Load(inst, disk)
  IN /\ inst' = r.inst
     /\ done' = IF r.out.kind = "ok" THEN "Loaded" ELSE done
     /\ last' = [op |-> "load", fresh |-> (inst = __init__), out |-> r.out]
     /\ UNCHANGED <<disk, builder>>

query(text, k) ==
  /\ last' = [op |-> "query", k |-> k, out |-> Query(inst, text, k)]
  /\ inst' = Served(inst, text)
  /\ UNCHANGED <<disk, done, builder>>

match_role(text) ==
  /\ last' = [op |-> "match_role", out |-> MatchRole(inst, text)]
  /\ inst' = Served(inst, text)
  /\ UNCHANGED <<disk, done, builder>>

Next ==
  \/ JDIndex
  \/ \E csv \in Corpora, writes \in 0..Len(ART_PATH) :
       build_from_csv(csv, MaxChunk, writes)
  \/ load
  \/ \E text \in QueryTexts, k \in 1..MaxK : query(text, k)
  \/ \E text \in QueryTexts : match_role(text)

Spec == Init /\ [][Next]_vars

-----------------------------------------------------------------------------
(* Ingestion alone, over every corpus file of up to MaxRows rows *)

IngestRows ==
  {Row(j, sk) : j \in {"Plumber", "Chef", "Plombier"},
                sk \in {"pipes wrench", NaN}}

CsvFiles ==
  {Csv(cols, rows) :
     cols \in {BothColumns, {"job_position"}},
     rows \in UNION {[1..n -> IngestRows] : n \in 1..MaxRows}}

\* the call to come: build_from_csv(csv, chunk_size=chunk_size)
InitIngest ==
  /\ inst = __init__
  /\ disk = EmptyDir
  /\ done = "Unbuilt"
  /\ builder = None
  /\ \E csv \in CsvFiles, chunk_size \in 1..MaxChunk :
       last = [op |-> "read_csv", csv |-> csv, chunk_size |-> chunk_size]

ingest ==
  /\ last.op = "read_csv"
  /\ last' = [op |-> "ingest", csv |-> last.csv,
              chunk_size |-> last.chunk_size,
              out |-> Ingest(last.csv, last.chunk_size)]
  /\ UNCHANGED <<inst, disk, done, builder>>

NextIngest == ingest

SpecIngest == InitIngest /\ [][NextIngest]_vars

-----------------------------------------------------------------------------
(* Instances that share the directory and whose save step is never         *)
(* interrupted: every build_from_csv runs to its return or to the raise of *)
(* its own ingestion, fitting or training                                  *)

NextCompleted ==
  \/ JDIndex
  \/ \E csv \in Corpora : build_from_csv(csv, MaxChunk, Len(ART_PATH))
  \/ load
  \/ \E text \in QueryTexts, k \in 1..MaxK : query(text, k)
  \/ \E text \in QueryTexts : match_role(text)

SpecCompleted == Init /\ [][NextCompleted]_vars

-----------------------------------------------------------------------------
(* Serving from a directory provisioned from outside: the instance only    *)
(* loads and answers, as the application does                              *)

\* a classifier object that was never fitted: it has no classes_
UnfittedClassifier == [coef_ |-> <<>>]

\* what each artifact file may hold when the directory is provisioned
Provisioned(n) ==
  {Absent, Trainings[<<CorpusA, MaxChunk>>].contents[n],
   Trainings[<<CorpusB, MaxChunk>>].contents[n]}
    \cup (IF ART_PATH[n] = "role_match_clf.pkl"
            THEN {UnfittedClassifier} ELSE {})

ProvisionedDirs ==
  {(ART_PATH[1] :> v) @@ (ART_PATH[2] :> c) @@ (ART_PATH[3] :> x)
     @@ (ART_PATH[4] :> y) @@ (ART_PATH[5] :> m) :
     v \in Provisioned(1), c \in Provisioned(2), x \in Provisioned(3),
     y \in Provisioned(4), m \in Provisioned(5)}

InitServe ==
  /\ inst = __init__
  /\ disk \in ProvisionedDirs
  /\ done = "Unbuilt"
  /\ builder = None
  /\ last = [op |-> "__init__"]

NextServe ==
  \/ JDIndex
  \/ load
  \/ \E text \in QueryTexts, k \in 1..MaxK : query(text, k)
  \/ \E text \in QueryTexts : match_role(text)

SpecServe == InitServe /\ [][NextServe]_vars

-----------------------------------------------------------------------------
(* app.py: the page over a provisioned artifact directory *)

\* sorted(set(...)) of a list of role labels
SortedRoles(labels) == SortBy(LabelOrder, Range(labels))

\* load_roles(): the metadata file, else the label array, else JDIndex.load,
\* else no role; every failure on the way is swallowed
load_roles(d) ==
  LET metadata == d["model_metadata.json"]
      jd == Load(__init__, d)
  IN CASE Exists(d, "model_metadata.json")
            /\ "roles" \in DOMAIN metadata ->
            SortedRoles(metadata.roles)
       [] ~(Exists(d, "model_metadata.json") /\ "roles" \in DOMAIN metadata)
            /\ Exists(d, "y_positions.npy") ->
            SortedRoles(d["y_positions.npy"].values)
       [] OTHER ->
            IF jd.out.kind = "ok" /\ jd.inst.classes_ # None
              THEN SortedRoles(jd.inst.classes_.values)
              ELSE <<>>

ResumeTexts == {"", "  ", "python developer"}

\* resume_text and resume_text.strip()
NotBlank(resume_text) == resume_text \notin {"", "  "}

\* what the page shows
Shown(message) == Returned(message)

\* the handler of the Analyze Resume button; meta_found says whether
\* faiss_meta.json holds an entry for the selected role.  Returns the jd the
\* handler made, if it made one, and what the user sees: a message, the
\* review, or the exception that left the handler.
AnalyzeHandler(d, resume_text, meta_found) ==
  LET roles == load_roles(d)
      jd == Load(__init__, d)
  IN CASE roles = <<>> ->
            [jd |-> None, out |-> Shown("System not ready")]
       [] roles # <<>> /\ ~NotBlank(resume_text) ->
            [jd |-> None, out |-> Shown("Please provide your resume")]
       [] roles # <<>> /\ NotBlank(resume_text) /\ meta_found ->
            [jd |-> None, out |-> Shown("review")]
       [] OTHER ->
            [jd |-> jd.inst,
             out |-> IF jd.out.kind = "ok" THEN Shown("review") ELSE jd.out]

\* one press of the button
AnalyzeResume(resume_text, meta_found) ==
  LET r == AnalyzeHandler(disk, resume_text, meta_found)
  IN /\ last' = [op |-> "Analyze Resume", resume_text |-> resume_text,
                 meta_found |-> meta_found, out |-> r.out]
     /\ inst' = IF r.jd = None THEN inst ELSE r.jd
     /\ done' = IF r.jd # None /\ r.out.kind = "ok" THEN "Loaded" ELSE done
     /\ UNCHANGED <<disk, builder>>

NextApp ==
  \E resume_text \in ResumeTexts, meta_found \in BOOLEAN :
    AnalyzeResume(resume_text, meta_found)

SpecApp == InitServe /\ [][NextApp]_vars

-----------------------------------------------------------------------------
(* Properties *)

\* every field of the instance is set
AllSet(self) ==
  /\ self.vectorizer.fitted
  /\ self.role_match_clf # None
  /\ self.index # None
  /\ self.X_dense # None
  /\ self.y_positions # None
  /\ self.classes_ # None

Calls == {"query", "match_role"}

\* the errors that say the facade is not ready; scikit-learn's NotFittedError
\* is counted as one
NotReadyErrors == {"NotReadyError", "NotFittedError"}

\* C1: while neither build_from_csv nor load has completed on the instance,
\* every query and every match_role call fails with the not-ready error, and
\* never with a failure on an unset field.
C1_UnbuiltRaisesNotReady ==
  (done = "Unbuilt" /\ last.op \in Calls) => last.out.kind \in NotReadyErrors

\* the corpus has both required columns and no row passes the language filter
NoRowSurvives(csv) ==
  /\ BothColumns \subseteq csv.columns
  /\ \A n \in 1..Len(csv.rows) : ~KeepRow(CleanRow(csv.rows[n]))

\* C2: build_from_csv on a corpus with both columns in which no row passes
\* the language filter raises the error of the ingestion emptiness check,
\* before any fitting, and writes no artifact file.
C2_EmptyCorpusRejected ==
  [][(last'.op = "build_from_csv" /\ NoRowSurvives(last'.csv))
       => /\ last'.out = Raised("ValueError", "no valid data")
          /\ disk' = disk]_vars

\* the rows stored in the search index of the instance
corpusSize == Len(inst.index.xb)

\* C3: on a Built or Loaded index, query(text, k) returns exactly
\* min(k, corpusSize) entries in non-decreasing distance order.
C3_QueryLength ==
  (done # "Unbuilt" /\ last.op = "query" /\ last.out.kind = "ok")
    => /\ Len(last.out.value) = Min(last.k, corpusSize)
       /\ \A r \in 1..(Len(last.out.value) - 1) :
            last.out.value[r].score <= last.out.value[r + 1].score

\* C4: a fresh instance that loads what a completed build_from_csv saved
\* holds the builder's in-memory state, and answers every query and
\* match_role call as the builder does.
C4_RoundTrip ==
  (last.op = "load" /\ last.fresh /\ last.out.kind = "ok" /\ builder # None)
    => /\ inst = builder
       /\ \A text \in QueryTexts :
            /\ MatchRole(inst, text) = MatchRole(builder, text)
            /\ \A k \in 1..MaxK : Query(inst, text, k) = Query(builder, text, k)

C4_Witness ==
  /\ last.op = "load" /\ last.fresh /\ last.out.kind = "ok"
  /\ builder # None
  /\ done = "Loaded"

\* C5: on a Built or Loaded instance, the label match_role returns is a
\* member of the instance's classes_.
C5_LabelClosure ==
  (done # "Unbuilt" /\ last.op = "match_role" /\ last.out.kind = "ok")
    => last.out.value.label \in Range(inst.classes_.values)

C5_Witness ==
  /\ done # "Unbuilt" /\ last.op = "match_role" /\ last.out.kind = "ok"
  /\ inst.classes_ # ndarray(SortBy(LabelOrder, Range(inst.y_positions.values)))

\* C6 as stated: load fails whenever any one of the five artifact files is
\* missing.
C6_LoadNeedsAllFive ==
  (last.op = "load" /\ \E f \in Range(ART_PATH) : ~Exists(disk, f))
    => last.out.kind # "ok"

\* the four files load() reads
LoadFiles == {ART_PATH[n] : n \in 1..Len(LoadOrder)}

\* C6 amended: load reads the vectorizer, the classifier, the dense matrix and
\* the label array, and not the JSON metadata: it completes exactly when those
\* four files exist, it raises otherwise, and when it completes every field
\* of the instance is set, the four read fields to what the files hold.
C6_LoadNeedsItsFour ==
  last.op = "load"
    => /\ last.out.kind = "ok" <=> \A f \in LoadFiles : Exists(disk, f)
       /\ last.out.kind # "ok" => last.out.kind = "FileNotFoundError"
       /\ last.out.kind = "ok"
            => /\ done = "Loaded"
               /\ AllSet(inst)
               /\ \A n \in 1..Len(LoadOrder) :
                    inst[LoadOrder[n]] = disk[ART_PATH[n]]

C6_Witness ==
  /\ last.op = "load"
  /\ last.out.kind = "FileNotFoundError"
  /\ Exists(disk, "vectorizer.pkl")
  /\ ~Exists(disk, "X_dense.npy")

\* C7: after a save step interrupted before its last write, at least one of
\* the five artifact files is absent, whatever the directory held before.
C7_PartialSaveLeavesGap ==
  (last.op = "build_from_csv" /\ last.out.kind = "OSError")
    => \E f \in Range(ART_PATH) : ~Exists(disk, f)

\* C8: once build_from_csv or load has completed on the instance, every field
\* stays set and every later query and match_role call answers.
C8_StaysReady ==
  done # "Unbuilt"
    => /\ AllSet(inst)
       /\ last.op \in Calls => last.out.kind = "ok"

\* the rows of the file that pass the language filter, in file order
Survivors(csv) ==
  SelectSeq([n \in 1..Len(csv.rows) |-> CleanRow(csv.rows[n])], KeepRow)

\* C9: ingestion yields exactly the rows whose job_position and
\* relevant_skills both pass the language filter, in file order, for every
\* chunk_size; without a required column no chunk contributes a row.
C9_IngestKeepsOrder ==
  last.op = "ingest"
    => IF BothColumns \subseteq last.csv.columns
         THEN last.out = Returned(Survivors(last.csv))
         ELSE last.out.kind = "ValueError"

C9_Witness ==
  /\ last.op = "ingest"
  /\ last.out.kind = "ok"
  /\ Len(last.csv.rows) > last.chunk_size
  /\ Len(last.out.value) >= 2
  /\ Len(last.out.value) < Len(last.csv.rows)
  /\ last.out.value[1] # last.out.value[2]

\* the distinct labels of a label array, sorted
Unique(y_positions) == ndarray(SortBy(LabelOrder, Range(y_positions.values)))

\* C10: after load, classes_ is the label set of the loaded classifier when it
\* has one, also when the label array holds other labels; it is derived from
\* the label array only when the classifier has none.
C10_ClassifierLabelsFirst ==
  (last.op = "load" /\ last.out.kind = "ok")
    => inst.classes_ = IF HasClasses(inst.role_match_clf)
                         THEN inst.role_match_clf.classes_
                         ELSE Unique(inst.y_positions)

C10_Witness ==
  /\ last.op = "load" /\ last.out.kind = "ok"
  /\ HasClasses(inst.role_match_clf)
  /\ inst.classes_ = inst.role_match_clf.classes_
  /\ inst.classes_ # Unique(inst.y_positions)

\* C11: once build_from_csv or load has completed, a query or match_role call
\* leaves the vectorizer, the classifier, X_dense, y_positions, classes_, the
\* search index and the artifact files as they were.
C11_ServingIsReadOnly ==
  [][(done # "Unbuilt" /\ last'.op \in Calls)
       => /\ inst' = inst
          /\ disk' = disk]_vars

C11_Witness ==
  /\ done # "Unbuilt"
  /\ last.op = "query" /\ last.out.kind = "ok"
  /\ last.k > corpusSize
  /\ AllSet(inst)
  /\ \A f \in Range(ART_PATH) : Exists(disk, f)

\* the instance holds the corpus rows df: label n, row n of X_dense and
\* vector n of the index all belong to row n of df
AlignedWith(self, df) ==
  LET vocabulary ==
        FitVocabulary([n \in 1..Len(df) |-> df[n].relevant_skills])
  IN /\ Len(self.y_positions.values) = Len(df)
     /\ Len(self.X_dense.values) = Len(df)
     /\ Len(self.index.xb) = Len(df)
     /\ \A n \in 1..Len(df) :
          /\ self.y_positions.values[n] = df[n].job_position
          /\ self.X_dense.values[n]
               = Vectorize(vocabulary, df[n].relevant_skills)
          /\ self.index.xb[n] = self.X_dense.values[n]

\* the ingested rows of the corpora that can be built
BuiltCorpora ==
  {Ingest(csv, MaxChunk).value :
     csv \in {c \in Corpora : Trainings[<<c, MaxChunk>>].raised = ""}}

\* C12: in every Built or Loaded state reached through calls whose save step
\* was not interrupted, y_positions, X_dense and the search index have one
\* entry per row of one corpus, entry n of each belonging to row n, and
\* every row a query reports carries the label of that row.
C12_LabelsAlignedWithRows ==
  done # "Unbuilt"
    => /\ \E df \in BuiltCorpora : AlignedWith(inst, df)
       /\ \A text \in QueryTexts, k \in 1..MaxK :
            Query(inst, text, k).kind = "ok"
              => LET found == search(inst.index,
                                     transform(inst.vectorizer, text), k)
                 IN \A r \in 1..k :
                      found[r].I >= 0
                        => Query(inst, text, k).value[r].job_position
                             = inst.y_positions.values[found[r].I + 1]

C12_Witness ==
  /\ done = "Loaded"
  /\ builder = inst
  /\ last.op = "query" /\ last.out.kind = "ok"
  /\ AlignedWith(inst, Ingest(CorpusB, MaxChunk).value)
  /\ inst.y_positions.values[1] # inst.y_positions.values[2]

\* JDIndex.load() on a fresh instance would raise in this directory
LoadFails(d) == Load(__init__, d).out.kind # "ok"

\* C13: whenever the index is unbuilt or its load would fail, pressing
\* Analyze Resume with a resume presents the "system not ready" message, and
\* no exception of JDIndex.load() leaves the handler.
C13_NotReadyIsPresented ==
  (last.op = "Analyze Resume" /\ LoadFails(disk))
    => /\ last.out.kind = "ok"
       /\ NotBlank(last.resume_text) => last.out = Shown("System not ready")

\* C14: a load() that raises leaves the vectorizer, the classifier, X_dense,
\* y_positions, classes_ and the index of the instance as they were before
\* the call.
C14_FailedLoadChangesNothing ==
  [][(last'.op = "load" /\ last'.out.kind # "ok") => inst' = inst]_vars

=============================================================================
